---- MODULE Spec2Model ----
(***************************************************************************)
(* Model of the company-data-scraper pipeline:                             *)
(*   scraping_url.py  clean_name, _sync_clearbit, fetch_api, get_urls_api  *)
(*   get_email.py     check_mx_records, extract_valid_emails,              *)
(*                    _scrape_sync_email, find_email_async                 *)
(*   main.py          main                                                 *)
(* Strings are sequences of one-character strings, so that substring,      *)
(* prefix and suffix tests are computed and not assumed.                   *)
(***************************************************************************)
EXTENDS Integers, Sequences, FiniteSets, TLC

VARIABLES
    client,     \* one call of _sync_clearbit: its arguments and its outcome
    scraper,    \* one call of _scrape_sync_email: arguments, world, outcome
    names,      \* main: the 'Company Name' column, in input order
    limits,     \* the values the two semaphores were constructed with
    mainPc,     \* main: position of the coroutine
    apiPc,      \* fetch_api task i: position
    apiSem,     \* api_semaphore: [value, waiters]
    apiEnv,     \* what the suggestion API answered to lookup i
    apiOut,     \* outcome of fetch_api task i
    website,    \* df['Website']
    mailPc,     \* find_email_async task i: position
    mailSem,    \* email_semaphore: [value, waiters]
    mailEnv,    \* what the network answered to scrape i
    mailOut,    \* outcome of find_email_async task i
    output      \* rows written by df.to_csv

vars == <<client, scraper, names, limits, mainPc, apiPc, apiSem, apiEnv,
          apiOut, website, mailPc, mailSem, mailEnv, mailOut, output>>

batchVars == <<names, limits, mainPc, apiPc, apiSem, apiEnv, apiOut,
               website, mailPc, mailSem, mailEnv, mailOut, output>>

----------------------------------------------------------------------------
(* Python values *)

\* None: the absent value. Every string is a sequence of characters, so
\* None is a sequence too, of one element that is no character.
None == <<"None">>

\* float('nan'): what pandas puts in an empty cell of a CSV column.
NaN == <<"nan">>

\* A key a JSON object does not have.
Missing == <<"missing">>

\* Python truthiness of a str | None value.
Truthy(s) == s # None /\ s # <<>>

Min(a, b) == IF a < b THEN a ELSE b

----------------------------------------------------------------------------
(* str operations *)

Uppers == <<"A", "B", "C", "D", "E", "F", "G", "H", "I", "J", "K", "L", "M",
            "N", "O", "P", "Q", "R", "S", "T", "U", "V", "W", "X", "Y", "Z">>

Lowers == <<"a", "b", "c", "d", "e", "f", "g", "h", "i", "j", "k", "l", "m",
            "n", "o", "p", "q", "r", "s", "t", "u", "v", "w", "x", "y", "z">>

Digits == {"0", "1", "2", "3", "4", "5", "6", "7", "8", "9"}

UpperCase == {Uppers[i] : i \in 1..Len(Uppers)}

LowerChar(c) ==
    IF c \in UpperCase
    THEN Lowers[CHOOSE i \in 1..Len(Uppers) : Uppers[i] = c]
    ELSE c

\* str.lower()
Lower(s) == [i \in 1..Len(s) |-> LowerChar(s[i])]

\* [a-z0-9]
LowerAlnum == {Lowers[i] : i \in 1..Len(Lowers)} \cup Digits

\* \w of the re module
WordChar == LowerAlnum \cup UpperCase \cup {"_"}

\* x in s
IsSubstr(x, s) ==
    \E i \in 0..(Len(s) - Len(x)) : \A k \in 1..Len(x) : s[i + k] = x[k]

\* s.startswith(x) at offset i (0-based)
MatchesAt(x, s, i) ==
    /\ i + Len(x) <= Len(s)
    /\ \A k \in 1..Len(x) : s[i + k] = x[k]

\* s.endswith(x)
EndsWith(s, x) == Len(x) <= Len(s) /\ MatchesAt(x, s, Len(s) - Len(x))

\* s.replace(c, '') for a one-character c
RECURSIVE RemoveChar(_, _)
RemoveChar(s, c) ==
    IF s = <<>> THEN <<>>
    ELSE IF Head(s) = c THEN RemoveChar(Tail(s), c)
    ELSE <<Head(s)>> \o RemoveChar(Tail(s), c)

----------------------------------------------------------------------------
(* scraping_url.py: clean_name *)

\* The alternation of the pattern, in its order.
LegalSuffixes == << <<"i","n","c">>, <<"l","l","c">>, <<"l","t","d">>,
                    <<"c","o","r","p">>, <<"l","i","m","i","t","e","d">>,
                    <<"c","o","m","p","a","n","y">>, <<"c","o">> >>

\* \b at offset i of s: exactly one side is a word character.
WordBoundary(s, i) ==
    LET before == i >= 1 /\ s[i] \in WordChar
        after  == i < Len(s) /\ s[i + 1] \in WordChar
    IN before # after

\* The alternatives that match at offset i with \b on both sides.
SuffixesAt(s, i) ==
    {k \in 1..Len(LegalSuffixes) :
        /\ WordBoundary(s, i)
        /\ MatchesAt(LegalSuffixes[k], s, i)
        /\ WordBoundary(s, i + Len(LegalSuffixes[k]))}

\* re.sub(r'\b(inc|...|co)\b', '', s): leftmost matches, first alternative
\* that lets the whole pattern match, scanning on after each match.
RECURSIVE SubSuffixes(_, _)
SubSuffixes(s, i) ==
    IF i >= Len(s) THEN <<>>
    ELSE IF SuffixesAt(s, i) # {}
         THEN LET k == CHOOSE k \in SuffixesAt(s, i) :
                          \A j \in SuffixesAt(s, i) : k <= j
              IN SubSuffixes(s, i + Len(LegalSuffixes[k]))
         ELSE <<s[i + 1]>> \o SubSuffixes(s, i + 1)

\* re.sub(r'[^a-z0-9]', '', s)
RECURSIVE KeepAlnum(_)
KeepAlnum(s) ==
    IF s = <<>> THEN <<>>
    ELSE IF Head(s) \in LowerAlnum THEN <<Head(s)>> \o KeepAlnum(Tail(s))
    ELSE KeepAlnum(Tail(s))

\* clean_name(name), for a str or None argument. A NaN argument is truthy
\* and has no lower(): the call raises (see CleanNameRaises).
CleanName(name) ==
    IF name = None \/ name = <<>> THEN <<>>
    ELSE KeepAlnum(SubSuffixes(Lower(name), 0))

\* name.lower() on a value that is no string and is not falsy
CleanNameRaisesOnNone(name) == name = NaN \/ name = None

CleanNameRaises(name) == name = NaN

----------------------------------------------------------------------------
(* scraping_url.py: _sync_clearbit *)

\* What global_session.get and response.json() can produce.
Transport == [kind |-> "transport", status |-> 0, json |-> "none", data |-> <<>>]

Http(status, json, data) ==
    [kind |-> "http", status |-> status, json |-> json, data |-> data]

\* item.get(key, '')
ItemGet(item, key) == IF item[key] = Missing THEN <<>> ELSE item[key]

\* f"https://{domain}"
Https(domain) == <<"https://">> \o domain

\* if clean_query in domain.replace('.', '')
Rule1(clean_query, item) ==
    IsSubstr(clean_query, RemoveChar(ItemGet(item, "domain"), "."))

\* if clean_query in item_name or item_name in clean_query
Rule2NonEmpty(clean_query, item) ==
    LET item_name == CleanName(ItemGet(item, "name"))
    IN \/ IsSubstr(clean_query, item_name)
       \/ item_name # <<>> /\ IsSubstr(item_name, clean_query)

Rule2(clean_query, item) ==
    LET item_name == CleanName(ItemGet(item, "name"))
    IN IsSubstr(clean_query, item_name) \/ IsSubstr(item_name, clean_query)

\* data[:3]
FirstThreeWhole(data) == data

FirstThree(data) == SubSeq(data, 1, Min(3, Len(data)))

\* for item in data[:3]: the first item either rule accepts ends the call.
\* scanned counts the items the loop looked at.
RECURSIVE MatchLoop(_, _, _)
MatchLoop(clean_query, items, i) ==
    IF i > Len(items) THEN [kind |-> "fall", val |-> None, scanned |-> Len(items)]
    ELSE IF Rule1(clean_query, items[i]) \/ Rule2(clean_query, items[i])
         THEN [kind |-> "return", val |-> Https(ItemGet(items[i], "domain")),
               scanned |-> i]
         ELSE MatchLoop(clean_query, items, i + 1)

\* The body of the try block.
ClearbitTryAnyStatus(company_name, resp) ==
    IF resp.kind = "transport"
      THEN [kind |-> "raise", val |-> None, scanned |-> 0]
    ELSE IF resp.json = "malformed"
      THEN [kind |-> "raise", val |-> None, scanned |-> 0]
    ELSE IF resp.json = "null" \/ resp.data = <<>>
      THEN [kind |-> "fall", val |-> None, scanned |-> 0]
    ELSE IF CleanNameRaises(company_name)
      THEN [kind |-> "raise", val |-> None, scanned |-> 0]
    ELSE MatchLoop(CleanName(company_name), FirstThree(resp.data), 1)

ClearbitTry(company_name, resp) ==
    IF resp.kind = "transport"
      THEN [kind |-> "raise", val |-> None, scanned |-> 0]
    ELSE IF resp.status # 200
      THEN [kind |-> "fall", val |-> None, scanned |-> 0]
    ELSE IF resp.json = "malformed"
      THEN [kind |-> "raise", val |-> None, scanned |-> 0]
    ELSE IF resp.json = "null" \/ resp.data = <<>>
      THEN [kind |-> "fall", val |-> None, scanned |-> 0]
    ELSE IF CleanNameRaises(company_name)
      THEN [kind |-> "raise", val |-> None, scanned |-> 0]
    ELSE MatchLoop(CleanName(company_name), FirstThree(resp.data), 1)

\* try: ... except: pass; return None
SyncClearbitUncaught(company_name, resp) == ClearbitTry(company_name, resp)

SyncClearbit(company_name, resp) ==
    LET r == ClearbitTry(company_name, resp)
    IN IF r.kind = "return" THEN r
       ELSE [kind |-> "return", val |-> None, scanned |-> r.scanned]

----------------------------------------------------------------------------
(* One call of _sync_clearbit, over bounded arguments and API answers *)

MaxNameLen == 3

MaxItems == 4

NameChars == {"a", "c", "o", "C", " "}

RECURSIVE StringsUpTo(_, _)
StringsUpTo(chars, n) ==
    IF n = 0 THEN {<<>>}
    ELSE LET shorter == StringsUpTo(chars, n - 1)
         IN shorter \cup {Append(s, c) : s \in shorter, c \in chars}

ClientNames == StringsUpTo(NameChars, MaxNameLen) \cup {None, NaN}

ItA == [domain |-> <<"a", ".", "i", "o">>, name |-> <<"A", " ", "C", "o">>]

ItO == [domain |-> <<"O", ".", "c">>, name |-> <<"O", "c">>]

ItC == [domain |-> <<"c", "c">>, name |-> <<"C", "o", ".">>]

ItM == [domain |-> Missing, name |-> Missing]

ClientItems == {ItA, ItO, ItC}

SeqsUpTo(S, n) == UNION {[1..k -> S] : k \in 0..n}

ClientResponses ==
    {Transport, Http(200, "malformed", <<>>), Http(200, "null", <<>>),
     Http(404, "malformed", <<>>), Http(404, "list", <<ItA>>),
     Http(500, "list", <<ItM, ItA>>), Http(200, "list", <<ItM, ItA>>),
     Http(200, "list", <<ItO, ItM>>)}
    \cup {Http(200, "list", d) : d \in SeqsUpTo(ClientItems, MaxItems)}

Pending == [kind |-> "pending", val |-> None, scanned |-> 0]

\* No lookup made yet.
Unasked == [kind |-> "unasked", status |-> 0, json |-> "none", data |-> <<>>]

Idle == [name |-> None, resp |-> Transport, out |-> Pending]

----------------------------------------------------------------------------
(* get_email.py: URLs, tldextract, urljoin *)

\* A URL is a scheme, one element, then the characters of host and path.
Schemes == {"https://", "http://", "mailto:"}

\* Offset of the first c in s at or after offset i; Len(s) when there is none.
RECURSIVE Find(_, _, _)
Find(s, c, i) ==
    IF i >= Len(s) THEN Len(s)
    ELSE IF s[i + 1] = c THEN i
    ELSE Find(s, c, i + 1)

\* Offset of the last c in s, -1 when there is none.
RECURSIVE FindLast(_, _, _)
FindLast(s, c, i) ==
    IF i = 0 THEN -1
    ELSE IF s[i] = c THEN i - 1
    ELSE FindLast(s, c, i - 1)

\* s.split(c)
RECURSIVE Split(_, _)
Split(s, c) ==
    LET i == Find(s, c, 0)
    IN IF i = Len(s) THEN <<s>>
       ELSE <<SubSeq(s, 1, i)>> \o Split(SubSeq(s, i + 2, Len(s)), c)

HostOf(url) == SubSeq(url, 2, Find(url, "/", 1))

PathOf(url) == SubSeq(url, Find(url, "/", 1) + 1, Len(url))

\* The entries of the public suffix list the model's hosts end in.
PublicSuffixes == { << <<"i", "o">> >>, << <<"c", "o", "m">> >>,
                    << <<"c", "o">>, <<"u", "k">> >> }

\* The registrable domain name of a host: the label left of the longest
\* public suffix; with no known suffix, the last label.
RegistrableName(host) ==
    LET labels == Split(Lower(host), ".")
        n      == Len(labels)
        ks     == {k \in 0..n : k = 0 \/ SubSeq(labels, n - k + 1, n) \in PublicSuffixes}
        k      == CHOOSE k \in ks : \A j \in ks : j <= k
    IN IF n - k >= 1 THEN labels[n - k] ELSE <<>>

\* tldextract.extract(url).domain
TldDomain(url) == RegistrableName(HostOf(url))

\* urljoin(base, href), for absolute hrefs, host-relative hrefs, the empty
\* href and hrefs relative to the directory of the base path.
UrlJoin(base, href) ==
    IF href = <<>> THEN base
    ELSE IF Head(href) \in Schemes THEN href
    ELSE IF Head(href) = "/" THEN <<Head(base)>> \o HostOf(base) \o href
    ELSE LET path == PathOf(base)
             cut  == FindLast(path, "/", Len(path))
         IN <<Head(base)>> \o HostOf(base)
              \o (IF cut < 0 THEN <<"/">> ELSE SubSeq(path, 1, cut + 1)) \o href

----------------------------------------------------------------------------
(* get_email.py: check_mx_records, extract_valid_emails *)

BAD_EXTENSIONS == { <<".", "p", "n", "g">>, <<".", "j", "p", "g">>,
                    <<".", "j", "p", "e", "g">>, <<".", "g", "i", "f">>,
                    <<".", "c", "s", "s">>, <<".", "j", "s">>,
                    <<".", "s", "v", "g">>, <<".", "w", "e", "b", "p">> }

TARGET_KEYWORDS == << <<"c", "o", "n", "t", "a", "c", "t">>,
                      <<"c", "o", "n", "t", "a", "c", "t", " ", "u", "s">>,
                      <<"s", "u", "p", "p", "o", "r", "t">>,
                      <<"a", "b", "o", "u", "t">>,
                      <<"a", "b", "o", "u", "t", " ", "u", "s">>,
                      <<"c", "o", "n", "n", "e", "c", "t">>,
                      <<"r", "e", "a", "c", "h">>,
                      <<"h", "e", "l", "p">> >>

MaxEmailLen == 50

\* email.split('@')[1]
EmailDomain(email) == Split(email, "@")[2]

\* check_mx_records(email): dns.resolver.resolve returns records or raises;
\* the bare except turns every failure into False.
CheckMxRecords(email, mx) == mx = "records"

\* The filter of the loop over raw_emails, on the lowercased match.
KeepsEmail(email, site_name) ==
    /\ ~ \E ext \in BAD_EXTENSIONS : EndsWith(email, ext)
    /\ ~ (Len(email) > MaxEmailLen)
    /\ IsSubstr(site_name, EmailDomain(email))

\* extract_valid_emails(html, current_url): the set found. page.mails is
\* re.findall(EMAIL_REGEX, html) after the three replace calls.
ExtractValidEmails(page, current_url) ==
    LET site_name == Lower(TldDomain(current_url))
    IN {Lower(page.mails[i]) : i \in {j \in 1..Len(page.mails) :
                                   KeepsEmail(Lower(page.mails[j]), site_name)}}

\* list(found): the set in the iteration order of this run.
ListOf(found, order) == SelectSeq(order, LAMBDA e : e \in found)

----------------------------------------------------------------------------
(* get_email.py: the anchor loop of _scrape_sync_email *)

HasKeyword(s) == \E k \in 1..Len(TARGET_KEYWORDS) : IsSubstr(TARGET_KEYWORDS[k], s)

HasContact(s) == IsSubstr(TARGET_KEYWORDS[1], s)

\* for a in soup.find_all('a', href=True): every keyword anchor overwrites
\* target_link; a contact anchor ends the loop.
RECURSIVE SelectLinkNoBreak(_, _, _, _)
SelectLinkNoBreak(anchors, final_url, i, target_link) ==
    IF i > Len(anchors) THEN target_link
    ELSE IF HasKeyword(Lower(anchors[i].text)) \/ HasKeyword(Lower(anchors[i].href))
         THEN SelectLinkNoBreak(anchors, final_url, i + 1,
                                UrlJoin(final_url, anchors[i].href))
         ELSE SelectLinkNoBreak(anchors, final_url, i + 1, target_link)

RECURSIVE SelectLinkKeepsFirst(_, _, _, _)
SelectLinkKeepsFirst(anchors, final_url, i, target_link) ==
    IF i > Len(anchors) THEN target_link
    ELSE LET text == Lower(anchors[i].text)
             href == Lower(anchors[i].href)
         IN IF HasContact(text) \/ HasContact(href)
            THEN UrlJoin(final_url, anchors[i].href)
            ELSE IF (HasKeyword(text) \/ HasKeyword(href)) /\ target_link = None
            THEN SelectLinkKeepsFirst(anchors, final_url, i + 1,
                                      UrlJoin(final_url, anchors[i].href))
            ELSE SelectLinkKeepsFirst(anchors, final_url, i + 1, target_link)

RECURSIVE SelectLink(_, _, _, _)
SelectLink(anchors, final_url, i, target_link) ==
    IF i > Len(anchors) THEN target_link
    ELSE LET text == Lower(anchors[i].text)
             href == Lower(anchors[i].href)
         IN IF HasKeyword(text) \/ HasKeyword(href)
            THEN IF HasContact(text) \/ HasContact(href)
                 THEN UrlJoin(final_url, anchors[i].href)
                 ELSE SelectLink(anchors, final_url, i + 1,
                                 UrlJoin(final_url, anchors[i].href))
            ELSE SelectLink(anchors, final_url, i + 1, target_link)

----------------------------------------------------------------------------
(* get_email.py: _scrape_sync_email *)

\* What the network holds for one call: the answer to the homepage GET, the
\* answer to the GET of the secondary page, the answer to the MX query, and
\* the iteration order of the set of emails found.
Page(mails, anchors) == [mails |-> mails, anchors |-> anchors]

NoPage == Page(<<>>, <<>>)

HomeFails == [ok |-> FALSE, page |-> NoPage, final |-> None]

HomeIs(page, final) == [ok |-> TRUE, page |-> page, final |-> final]

SecondFails == [ok |-> FALSE, page |-> NoPage]

SecondIs(page) == [ok |-> TRUE, page |-> page]

Ev(op, arg) == [op |-> op, arg |-> arg]

Outcome(kind, val, trace) == [kind |-> kind, val |-> val, trace |-> trace]

\* if not website_url or pd.isna(website_url)
NoUrlNever(website_url) == FALSE

NoUrlOnlyEmpty(website_url) == website_url = <<>>

NoUrl(website_url) ==
    website_url = None \/ website_url = <<>> \/ website_url = NaN

\* if emails: candidate = emails[0]; check_mx_records(candidate)
VerifyUnchecked(emails, w, trace) ==
    IF emails # <<>>
    THEN Outcome("return", emails[1], trace \o <<Ev("mx", emails[1])>>)
    ELSE Outcome("return", None, trace)

Verify(emails, w, trace) ==
    IF emails # <<>>
    THEN LET candidate == emails[1]
             t         == trace \o <<Ev("mx", candidate)>>
         IN IF CheckMxRecords(candidate, w.mx)
            THEN Outcome("return", candidate, t)
            ELSE Outcome("return", None, t)
    ELSE Outcome("return", None, trace)

\* if not emails: the anchor loop, then the GET of target_link
SecondPageRetries(html, final_url, w, trace) ==
    LET target_link == SelectLink(html.anchors, final_url, 1, None)
        t1          == trace \o <<Ev("links", final_url)>>
    IN IF target_link # None /\ target_link # <<>>
       THEN LET t2 == t1 \o <<Ev("get", target_link)>>
            IN IF w.second.ok
               THEN Verify(ListOf(ExtractValidEmails(w.second.page, final_url),
                                  w.order),
                           w, t2 \o <<Ev("extract", final_url)>>)
               ELSE Verify(<<>>, w, t2 \o <<Ev("get", target_link)>>)
       ELSE Verify(<<>>, w, t1)

SecondPageOwnUrl(html, final_url, w, trace) ==
    LET target_link == SelectLink(html.anchors, final_url, 1, None)
        t1          == trace \o <<Ev("links", final_url)>>
    IN IF target_link # None /\ target_link # <<>>
       THEN LET t2 == t1 \o <<Ev("get", target_link)>>
            IN IF w.second.ok
               THEN Verify(ListOf(ExtractValidEmails(w.second.page, target_link),
                                  w.order),
                           w, t2 \o <<Ev("extract", target_link)>>)
               ELSE Verify(<<>>, w, t2)
       ELSE Verify(<<>>, w, t1)

SecondPage(html, final_url, w, trace) ==
    LET target_link == SelectLink(html.anchors, final_url, 1, None)
        t1          == trace \o <<Ev("links", final_url)>>
    IN IF target_link # None /\ target_link # <<>>
       THEN LET t2 == t1 \o <<Ev("get", target_link)>>
            IN IF w.second.ok
               THEN Verify(ListOf(ExtractValidEmails(w.second.page, final_url),
                                  w.order),
                           w, t2 \o <<Ev("extract", final_url)>>)
               ELSE Verify(<<>>, w, t2)
       ELSE Verify(<<>>, w, t1)

\* After the homepage GET: resp.text and resp.url, or the inner except.
AfterHomeGoesOn(website_url, w, trace) ==
    LET html      == IF w.home.ok THEN w.home.page ELSE NoPage
        final_url == IF w.home.ok THEN w.home.final ELSE website_url
        emails    == ListOf(ExtractValidEmails(html, final_url), w.order)
        t         == trace \o <<Ev("extract", final_url)>>
    IN IF emails = <<>> THEN SecondPage(html, final_url, w, t)
       ELSE Verify(emails, w, t)

AfterHomeAlwaysLinks(website_url, w, trace) ==
    IF ~ w.home.ok THEN Outcome("return", None, trace)
    ELSE SecondPage(w.home.page, w.home.final, w,
                    trace \o <<Ev("extract", w.home.final)>>)

AfterHome(website_url, w, trace) ==
    IF ~ w.home.ok THEN Outcome("return", None, trace)
    ELSE LET html      == w.home.page
             final_url == w.home.final
             emails    == ListOf(ExtractValidEmails(html, final_url), w.order)
             t         == trace \o <<Ev("extract", final_url)>>
         IN IF emails = <<>> THEN SecondPage(html, final_url, w, t)
            ELSE Verify(emails, w, t)

\* _scrape_sync_email(website_url) in the world w. Nothing in the body
\* raises past the bare excepts: every path returns.
ScrapeSyncEmail(website_url, w) ==
    IF NoUrl(website_url) THEN Outcome("return", None, <<>>)
    ELSE AfterHome(website_url, w, <<Ev("get", website_url)>>)

NetworkOps == {"get", "mx"}

\* The network calls of a trace.
NetCalls(trace) == SelectSeq(trace, LAMBDA e : e.op \in NetworkOps)

----------------------------------------------------------------------------
(* asyncio.Semaphore, as fetch_api and find_email_async use it *)

Semaphore(value) == [value |-> value, waiters |-> <<>>]

\* Semaphore.locked()
LockedNever(sem) == FALSE

Locked(sem) == sem.value = 0 \/ sem.waiters # <<>>

\* async with sem, on entry: take a permit, or queue behind the waiters.
Acquire(sem, i) ==
    IF ~ Locked(sem) THEN [sem EXCEPT !.value = @ - 1]
    ELSE [sem EXCEPT !.waiters = Append(@, i)]

\* async with sem, on exit: release() gives the permit back and
\* _wake_up_next() hands it to the first waiter.
ReleaseAlwaysIncrements(sem) ==
    [value |-> sem.value + 1,
     waiters |-> IF sem.waiters # <<>> THEN Tail(sem.waiters) ELSE <<>>]

Release(sem) ==
    IF sem.waiters # <<>> THEN [sem EXCEPT !.waiters = Tail(@)]
    ELSE [sem EXCEPT !.value = @ + 1]

\* The task release() wakes, 0 when nobody waits.
WokenNobody(sem) == 0

Woken(sem) == IF sem.waiters # <<>> THEN Head(sem.waiters) ELSE 0

\* await asyncio.gather(*tasks) resumes when every task is done.
GatheredFirst(pcs) == \E j \in DOMAIN pcs : pcs[j] = "done"

Gathered(pcs) == \A j \in DOMAIN pcs : pcs[j] = "done"

\* asyncio.gather: the result of the i-th awaitable is the i-th result.
PlaceByCompletion(results, i, v) ==
    LET free == {k \in DOMAIN results : results[k].kind = "pending"}
        k    == CHOOSE k \in free : \A j \in free : k <= j
    IN [results EXCEPT ![k] = v]

Place(results, i, v) == [results EXCEPT ![i] = v]

----------------------------------------------------------------------------
(* The batch: main, get_urls_api, fetch_api, find_email_async *)

ApiLimit == 50

EmailLimit == 10

\* The limit of the scaled-down gates, which a small batch can fill.
TestLimit == 2

MaxBatch == 3

GateLimits == {[api |-> ApiLimit, email |-> EmailLimit],
               [api |-> TestLimit, email |-> TestLimit]}

BatchNames == {<<"a">>, <<"o">>, NaN}

\* The batch of the scaled-down run: more units than TestLimit.
TestUnits == 5

TestBatch == [i \in 1..TestUnits |-> <<"a">>]

BatchResponses == {Transport, Http(200, "list", <<ItO, ItA>>)}

MailA == <<"j", "@", "a", ".", "i", "o">>

HomeA == HomeIs(Page(<<MailA>>, <<>>), Https(<<"a", ".", "i", "o", "/">>))

World(home, second, mx, order) ==
    [home |-> home, second |-> second, mx |-> mx, order |-> order]

\* No answer at all: what a call that never reaches the network is given.
Offline == World(HomeFails, SecondFails, "nxdomain", <<>>)

BatchWorlds == {World(HomeFails, SecondFails, "nxdomain", <<MailA>>),
                World(HomeA, SecondFails, "records", <<MailA>>),
                World(HomeA, SecondFails, "nxdomain", <<MailA>>)}

PendingScrape == Outcome("pending", None, <<>>)

ScraperIdle == [url |-> None, w |-> Offline, out |-> PendingScrape]

Tasks == 1..Len(names)

\* results[i] = str(url) if url, else None
UrlOf(out) == IF Truthy(out.val) THEN out.val ELSE None

Init ==
    /\ client = Idle
    /\ scraper = [url |-> None, w |-> Offline, out |-> PendingScrape]
    /\ \/ /\ names \in UNION {[1..n -> BatchNames] : n \in 1..MaxBatch}
          /\ limits \in GateLimits
       \/ /\ names = TestBatch
          /\ limits = [api |-> TestLimit, email |-> TestLimit]
    /\ mainPc = "lookups"
    /\ apiPc = [i \in Tasks |-> "new"]
    /\ apiSem = Semaphore(limits.api)
    /\ apiEnv = [i \in Tasks |-> Unasked]
    /\ apiOut = [i \in Tasks |-> Pending]
    /\ website = <<>>
    /\ mailPc = [i \in Tasks |-> "none"]
    /\ mailSem = Semaphore(limits.email)
    /\ mailEnv = [i \in Tasks |-> Offline]
    /\ mailOut = [i \in Tasks |-> PendingScrape]
    /\ output = <<>>

\* fetch_api(name), first step: async with api_semaphore. The tasks of a
\* gather take their first step in the order they were created.
ApiEnter(i) ==
    /\ mainPc = "lookups"
    /\ apiPc[i] = "new"
    /\ \A j \in 1..(i - 1) : apiPc[j] # "new"
    /\ apiPc' = [apiPc EXCEPT ![i] = IF Locked(apiSem) THEN "waiting" ELSE "inside"]
    /\ apiSem' = Acquire(apiSem, i)
    /\ UNCHANGED <<client, scraper, names, limits, mainPc, apiEnv, apiOut,
                   website, mailPc, mailSem, mailEnv, mailOut, output>>

\* fetch_api(name), second step: the thread running _sync_clearbit is back,
\* the task leaves the async with block and ends. An exception of the
\* thread ends the gather and reaches main's except Exception.
ApiReturn(i) ==
    /\ mainPc = "lookups"
    /\ apiPc[i] = "inside"
    /\ \A j \in Tasks : apiPc[j] # "new"
    /\ \E resp \in BatchResponses :
         LET out == SyncClearbit(names[i], resp)
         IN /\ apiEnv' = [apiEnv EXCEPT ![i] = resp]
            /\ apiOut' = Place(apiOut, i, out)
            /\ mainPc' = IF out.kind = "raise" THEN "critical" ELSE mainPc
    /\ apiSem' = Release(apiSem)
    /\ apiPc' = [j \in Tasks |-> IF j = i THEN "done"
                                 ELSE IF j = Woken(apiSem) THEN "inside"
                                 ELSE apiPc[j]]
    /\ UNCHANGED <<client, scraper, names, limits, website, mailPc, mailSem,
                   mailEnv, mailOut, output>>

\* get_urls_api after the gather, then main: df['Website'] = urls and the
\* scrape tasks are created, one per row.
StartScrapes ==
    /\ mainPc = "lookups"
    /\ Gathered(apiPc)
    /\ website' = [i \in Tasks |-> UrlOf(apiOut[i])]
    /\ mailPc' = [i \in Tasks |-> "new"]
    /\ mainPc' = "scrapes"
    /\ UNCHANGED <<client, scraper, names, limits, apiPc, apiSem, apiEnv,
                   apiOut, mailSem, mailEnv, mailOut, output>>

\* find_email_async(url), first step: async with email_semaphore.
MailEnter(i) ==
    /\ mainPc = "scrapes"
    /\ mailPc[i] = "new"
    /\ \A j \in 1..(i - 1) : mailPc[j] # "new"
    /\ mailPc' = [mailPc EXCEPT ![i] = IF Locked(mailSem) THEN "waiting" ELSE "inside"]
    /\ mailSem' = Acquire(mailSem, i)
    /\ UNCHANGED <<client, scraper, names, limits, mainPc, apiPc, apiSem,
                   apiEnv, apiOut, website, mailEnv, mailOut, output>>

\* find_email_async(url), second step: the thread running
\* _scrape_sync_email is back, the notice is printed, the block is left.
MailReturn(i) ==
    /\ mainPc = "scrapes"
    /\ mailPc[i] = "inside"
    /\ \A j \in Tasks : mailPc[j] # "new"
    /\ \E w \in BatchWorlds :
         LET out == ScrapeSyncEmail(website[i], w)
         IN /\ mailEnv' = [mailEnv EXCEPT ![i] =
                              IF NetCalls(out.trace) = <<>> THEN Offline ELSE w]
            /\ mailOut' = Place(mailOut, i, out)
            /\ mainPc' = IF out.kind = "raise" THEN "critical" ELSE mainPc
    /\ mailSem' = Release(mailSem)
    /\ mailPc' = [j \in Tasks |-> IF j = i THEN "done"
                                  ELSE IF j = Woken(mailSem) THEN "inside"
                                  ELSE mailPc[j]]
    /\ UNCHANGED <<client, scraper, names, limits, apiPc, apiSem, apiEnv,
                   apiOut, website, output>>

\* main after the second gather: df['Email'] = emails; df.to_csv(...)
Save ==
    /\ mainPc = "scrapes"
    /\ Gathered(mailPc)
    /\ output' = [i \in Tasks |-> [name |-> names[i], url |-> website[i],
                                   email |-> mailOut[i].val]]
    /\ mainPc' = "saved"
    /\ UNCHANGED <<client, scraper, names, limits, apiPc, apiSem, apiEnv,
                   apiOut, website, mailPc, mailSem, mailEnv, mailOut>>

Next ==
    \/ \E i \in Tasks : ApiEnter(i)
    \/ \E i \in Tasks : ApiReturn(i)
    \/ StartScrapes
    \/ \E i \in Tasks : MailEnter(i)
    \/ \E i \in Tasks : MailReturn(i)
    \/ Save

Spec == Init /\ [][Next]_vars

\* The blocking calls return (every network call has a timeout) and the
\* event loop runs every task that is ready.
FairSpec ==
    /\ Spec
    /\ WF_vars(\E i \in Tasks : ApiEnter(i))
    /\ WF_vars(\E i \in Tasks : ApiReturn(i))
    /\ WF_vars(StartScrapes)
    /\ WF_vars(\E i \in Tasks : MailEnter(i))
    /\ WF_vars(\E i \in Tasks : MailReturn(i))
    /\ WF_vars(Save)

----------------------------------------------------------------------------
(* One call of _sync_clearbit *)

BatchIdle ==
    /\ names = <<>>
    /\ limits = [api |-> ApiLimit, email |-> EmailLimit]
    /\ mainPc = "idle"
    /\ apiPc = <<>>
    /\ apiSem = Semaphore(ApiLimit)
    /\ apiEnv = <<>>
    /\ apiOut = <<>>
    /\ website = <<>>
    /\ mailPc = <<>>
    /\ mailSem = Semaphore(EmailLimit)
    /\ mailEnv = <<>>
    /\ mailOut = <<>>
    /\ output = <<>>

ClientInit ==
    /\ client \in [name : ClientNames, resp : ClientResponses, out : {Pending}]
    /\ scraper = ScraperIdle
    /\ BatchIdle

ClientCall ==
    /\ client.out = Pending
    /\ client' = [client EXCEPT !.out = SyncClearbit(client.name, client.resp)]
    /\ UNCHANGED <<scraper, batchVars>>

ClientSpec == ClientInit /\ [][ClientCall]_vars

----------------------------------------------------------------------------
(* One call of _scrape_sync_email *)

Chars(n, c) == [i \in 1..n |-> c]

AcmeIo == <<"a", "c", "m", "e", ".", "i", "o">>

MailJ == <<"j", "@">> \o AcmeIo

MailInfo == <<"I", "n", "f", "o", "@", "A", "c", "m", "e", ".", "i", "o">>

MailOther == <<"s", "@", "o", "t", "h", "e", "r", ".", "c", "o", "m">>

MailPng == <<"l", "o", "g", "o", "@", "a", "c", "m", "e", ".", "p", "n", "g">>

MailLong == Chars(MaxEmailLen - 7, "x") \o <<"@">> \o AcmeIo

MailSub == <<"x", "@", "a", "c", "m", "e", ".", "o", "t", "h", "e", "r", ".",
             "c", "o", "m">>

Anchor(text, href) == [text |-> text, href |-> href]

AContact == Anchor(<<"C", "o", "n", "t", "a", "c", "t", " ", "U", "s">>,
                   <<"/", "c">>)

AAbout == Anchor(<<"A", "b", "o", "u", "t">>, <<"/", "a", "b", "o", "u", "t">>)

AHelp == Anchor(<<"F", "A", "Q">>, <<"h", "e", "l", "p", ".", "h", "t", "m", "l">>)

AHome == Anchor(<<"H", "o", "m", "e">>, <<"/">>)

AMailto == Anchor(<<"M", "a", "i", "l">>, <<"mailto:">> \o MailJ)

OtherCom == <<"o", "t", "h", "e", "r", ".", "c", "o", "m">>

\* A keyword anchor that leaves the site.
AExternal == Anchor(<<"S", "u", "p", "p", "o", "r", "t">>,
                    Https(OtherCom \o <<"/", "s">>))

HomePages ==
    {Page(<<MailJ>>, <<AContact>>),
     Page(<<MailInfo, MailJ>>, <<>>),
     Page(<<MailOther, MailPng, MailLong>>, <<AAbout, AContact, AHelp>>),
     Page(<<MailOther>>, <<AHelp, AAbout, AHome>>),
     Page(<<>>, <<AHome>>),
     Page(<<>>, <<AMailto>>),
     Page(<<>>, <<AExternal>>),
     Page(<<>>, <<>>)}

SecondPages == {Page(<<MailJ>>, <<>>), Page(<<MailOther, MailInfo, MailJ>>, <<>>),
                Page(<<MailSub>>, <<AContact>>), Page(<<>>, <<AContact>>)}

FinalUrls == {Https(AcmeIo \o <<"/">>),
              Https(<<"w", "w", "w", ".">> \o AcmeIo \o <<"/", "e", "n", "/", "h">>),
              Https(OtherCom \o <<"/">>)}

ScraperUrls == {None, <<>>, NaN, Https(AcmeIo), Https(<<>>)}

MxAnswers == {"records", "nxdomain"}

Orders == { <<Lower(MailJ), Lower(MailInfo), Lower(MailSub), Lower(MailOther)>>,
            <<Lower(MailOther), Lower(MailSub), Lower(MailInfo), Lower(MailJ)>> }

ScraperWorlds ==
    {World(h, s, mx, o) :
        h \in {HomeFails} \cup {HomeIs(p, f) : p \in HomePages, f \in FinalUrls},
        s \in {SecondFails} \cup {SecondIs(p) : p \in SecondPages},
        mx \in MxAnswers, o \in Orders}

ScraperInit ==
    /\ client = Idle
    /\ scraper \in [url : ScraperUrls, w : ScraperWorlds, out : {PendingScrape}]
    /\ BatchIdle

ScraperCall ==
    /\ scraper.out = PendingScrape
    /\ scraper' = [scraper EXCEPT !.out = ScrapeSyncEmail(scraper.url, scraper.w)]
    /\ UNCHANGED <<client, batchVars>>

ScraperSpec == ScraperInit /\ [][ScraperCall]_vars

----------------------------------------------------------------------------
(* One call of _scrape_sync_email on a homepage without emails: the anchor
   loop decides what is fetched next *)

MaxAnchors == 3

AWrite == Anchor(<<"W", "r", "i", "t", "e">>,
                 <<"/", "C", "O", "N", "T", "A", "C", "T", "/">>)

LinkAnchors == {AContact, AWrite, AAbout, AHelp, AHome}

LinkWorlds ==
    {World(HomeIs(Page(<<>>, a), f), s, "records", <<Lower(MailJ)>>) :
        a \in SeqsUpTo(LinkAnchors, MaxAnchors), f \in FinalUrls,
        s \in {SecondFails, SecondIs(Page(<<MailJ>>, <<>>))}}

LinkInit ==
    /\ client = Idle
    /\ scraper \in [url : {Https(AcmeIo)}, w : LinkWorlds, out : {PendingScrape}]
    /\ BatchIdle

LinkSpec == LinkInit /\ [][ScraperCall]_vars

----------------------------------------------------------------------------
(* Properties of the batch *)

Inside(pcs) == Cardinality({i \in DOMAIN pcs : pcs[i] = "inside"})

\* C1: when the batch is saved, the output has one row per input name, and
\* row i holds name i, the url _sync_clearbit computes from name i and the
\* answer lookup i got, and the email _scrape_sync_email computes from that
\* url and the answers scrape i got, whatever the order of completion.
OutputAligned ==
    mainPc = "saved" =>
        /\ Len(output) = Len(names)
        /\ \A i \in 1..Len(names) :
              /\ output[i].name = names[i]
              /\ output[i].url = UrlOf(SyncClearbit(names[i], apiEnv[i]))
              /\ output[i].email =
                     ScrapeSyncEmail(output[i].url, mailEnv[i]).val

\* A saved batch of three rows with three different outcomes: no url, a url
\* with a verified email, another url.
OutputAlignedWitness ==
    /\ mainPc = "saved"
    /\ Len(output) = 3
    /\ output[1].url = None
    /\ output[2].url # None /\ output[2].email # None
    /\ output[3].url \notin {None, output[2].url}

\* C2: the units inside the lookup gate never outnumber the value the
\* lookup semaphore was built with (50, or 2 in the scaled-down run), nor
\* the units inside the scrape gate the value of the scrape semaphore (10,
\* or 2); with limit 2 and 5 units at most 2 are inside at once.
GatesBounded ==
    /\ Inside(apiPc) <= limits.api
    /\ Inside(mailPc) <= limits.email
    /\ limits.api \in {ApiLimit, TestLimit}
    /\ limits.email \in {EmailLimit, TestLimit}

\* The scaled-down run with the scrape gate full and the rest queued.
GatesBoundedWitness ==
    /\ names = TestBatch
    /\ Inside(mailPc) = TestLimit
    /\ Len(mailSem.waiters) = TestUnits - TestLimit

\* C3: under fair scheduling and returning calls the batch ends, and stays,
\* saved with one row per input and every unit of both stages completed
\* with a returned result; so no unit stays queued at a gate for ever,
\* also when there are more inputs than permits.
BatchCompletes ==
    <>[](/\ mainPc = "saved"
         /\ Len(output) = Len(names)
         /\ \A i \in Tasks :
               /\ apiPc[i] = "done" /\ apiOut[i].kind = "return"
               /\ mailPc[i] = "done" /\ mailOut[i].kind = "return")

\* A saved batch that had more inputs than either gate admits at once.
BatchCompletesWitness ==
    /\ mainPc = "saved"
    /\ Len(names) > limits.api
    /\ Len(names) > limits.email
    /\ Len(output) = Len(names)

\* C4: once any scrape unit has taken its first step, every lookup is done
\* and nothing is inside or waiting at the lookup gate.
StagesSequential ==
    (\E i \in DOMAIN mailPc : mailPc[i] \in {"waiting", "inside", "done"})
        => /\ \A j \in DOMAIN apiPc : apiPc[j] = "done"
           /\ apiSem = Semaphore(limits.api)

\* A scrape is running, another is queued, and all lookups are over.
StagesSequentialWitness ==
    /\ \E i \in DOMAIN mailPc : mailPc[i] = "inside"
    /\ \E i \in DOMAIN mailPc : mailPc[i] = "waiting"
    /\ \A j \in DOMAIN apiPc : apiPc[j] = "done"

LookupFailed(resp) ==
    \/ resp.kind = "transport"
    \/ resp.kind = "http" /\ resp.status # 200
    \/ resp.kind = "http" /\ resp.json \in {"malformed", "null"}

\* C5: no failure reaches main as an exception; in the saved batch a row
\* whose lookup failed has no url and no email, a row whose homepage fetch
\* or MX query failed has no email, and two rows with the same name and the
\* same answers hold the same url and email, whatever happened to the
\* other rows.
FailuresStayLocal ==
    /\ mainPc # "critical"
    /\ \A i \in DOMAIN apiOut : apiOut[i].kind \in {"pending", "return"}
    /\ \A i \in DOMAIN mailOut : mailOut[i].kind \in {"pending", "return"}
    /\ mainPc = "saved" =>
          \A i \in 1..Len(output) :
             /\ LookupFailed(apiEnv[i])
                   => output[i].url = None /\ output[i].email = None
             /\ (~ mailEnv[i].home.ok \/ mailEnv[i].mx # "records")
                   => output[i].email = None
             /\ \A j \in 1..Len(output) :
                   (/\ names[i] = names[j]
                    /\ apiEnv[i] = apiEnv[j]
                    /\ mailEnv[i] = mailEnv[j])
                       => /\ output[i].url = output[j].url
                          /\ output[i].email = output[j].email

\* A saved batch with a failed lookup, a failed homepage fetch, a failed MX
\* query and a row that got its email.
FailuresStayLocalWitness ==
    /\ mainPc = "saved"
    /\ \E i \in 1..Len(output) : apiEnv[i] = Transport
    /\ \E i \in 1..Len(output) : output[i].url # None /\ ~ mailEnv[i].home.ok
    /\ \E i \in 1..Len(output) :
          /\ output[i].url # None
          /\ mailEnv[i].home.ok /\ mailEnv[i].mx = "nxdomain"

\* The rows whose url is None once the lookups are gathered.
NoSite == {i \in DOMAIN website : website[i] = None}

\* C18: once the lookups are gathered every row has a scrape unit, the
\* rows without url included; such a unit goes through the scrape gate like
\* any other, ends with the email None and makes no network call; in the
\* saved batch a row with an email has a url.
AbsentUrlAbsentEmail ==
    /\ mainPc \in {"scrapes", "saved"}
          => /\ DOMAIN website = Tasks
             /\ \A i \in Tasks : mailPc[i] \in {"new", "waiting", "inside", "done"}
    /\ \A i \in NoSite :
          /\ mailPc[i] = "inside" => mailSem.value <= limits.email - 1
          /\ mailPc[i] = "done"
                => /\ mailOut[i].val = None
                   /\ NetCalls(mailOut[i].trace) = <<>>
                   /\ mailEnv[i] = Offline
    /\ mainPc = "saved"
          => \A i \in 1..Len(output) :
                /\ output[i].url = None => output[i].email = None
                /\ output[i].email # None => output[i].url # None

\* The scaled-down run: a row without url holds one of the 2 scrape
\* permits while another row waits for it, and a row without url is done.
AbsentUrlAbsentEmailWitness ==
    /\ mainPc = "scrapes"
    /\ limits.email = TestLimit
    /\ mailSem.value = 0
    /\ mailSem.waiters # <<>>
    /\ \E i \in NoSite : mailPc[i] = "inside"
    /\ \E i \in NoSite : mailPc[i] = "done" /\ mailOut[i].val = None
    /\ \E i \in Tasks : website[i] # None

Waiting(pcs) == Cardinality({i \in DOMAIN pcs : pcs[i] = "waiting"})

\* C19: on both gates the free permits plus the units inside make the
\* limit, in every state, so each unit that leaves gives back the one
\* permit it took, whatever its work returned; the queue of a gate holds
\* the units waiting for it; when the batch is saved both gates are back
\* at their limit with nobody queued.
PermitsConserved ==
    /\ apiSem.value + Inside(apiPc) = limits.api
    /\ mailSem.value + Inside(mailPc) = limits.email
    /\ Len(apiSem.waiters) = Waiting(apiPc)
    /\ Len(mailSem.waiters) = Waiting(mailPc)
    /\ mainPc = "saved"
          => /\ apiSem = Semaphore(limits.api)
             /\ mailSem = Semaphore(limits.email)
             /\ limits.api = ApiLimit => apiSem.value = 50
             /\ limits.email = EmailLimit => mailSem.value = 10

\* The scaled-down run saved: 5 units went through gates of 2 permits,
\* some scrapes returned an email and some None, and both gates are full.
PermitsConservedWitness ==
    /\ mainPc = "saved"
    /\ names = TestBatch
    /\ apiSem.value = TestLimit /\ mailSem.value = TestLimit
    /\ \E i \in Tasks : output[i].email # None
    /\ \E i \in Tasks : output[i].url # None /\ output[i].email = None
    /\ \E i \in Tasks : output[i].url = None

----------------------------------------------------------------------------
(* Properties of _sync_clearbit *)

ClientDone == client.out # Pending

\* The cases of the claim: transport error, status other than 200, body
\* that is no JSON, JSON null, empty list.
NoSuggestions(resp) == LookupFailed(resp) \/ resp.data = <<>>

\* C6: on a transport error, a status other than 200, a malformed or
\* absent JSON body or an empty result list, _sync_clearbit returns None,
\* does not raise, and has looked at no candidate.
ClientAbsentOnFailure ==
    (ClientDone /\ NoSuggestions(client.resp))
        => client.out = [kind |-> "return", val |-> None, scanned |-> 0]

\* A status 500 whose body holds a candidate that any name would match.
ClientAbsentOnFailureWitness ==
    /\ ClientDone
    /\ client.resp = Http(500, "list", <<ItM, ItA>>)
    /\ client.name = <<"a">>
    /\ client.out.val = None

\* The indexes, among the first 3, of the candidates rule 1 or rule 2 accepts.
Hits(name, data) ==
    {i \in 1..Len(data) :
        /\ i <= 3
        /\ \/ Rule1(CleanName(name), data[i])
           \/ Rule2(CleanName(name), data[i])}

\* C7: for a name that is a string or None and a 200 answer with a
\* non-empty list, the result is https://<domain> of the lowest-indexed
\* candidate among the first 3 that rule 1 or rule 2 accepts, and None
\* when none of the first 3 is accepted.
FirstMatchWins ==
    (/\ ClientDone
     /\ client.name # NaN
     /\ ~ NoSuggestions(client.resp))
        => LET hits == Hits(client.name, client.resp.data)
           IN IF hits = {} THEN client.out.val = None
              ELSE \E i \in hits :
                      /\ \A j \in hits : i <= j
                      /\ client.out.val =
                             Https(ItemGet(client.resp.data[i], "domain"))
                      /\ client.out.scanned = i

\* Only the fourth candidate matches the name, and the result is None.
FirstMatchWinsWitness ==
    /\ ClientDone
    /\ client.name = <<"a">>
    /\ client.resp = Http(200, "list", <<ItO, ItO, ItO, ItA>>)
    /\ client.out.val = None

\* C16: for the name None or the empty string and a 200 answer with a
\* non-empty list, the result is https://<domain> of the first candidate,
\* and the scan stops there.
EmptyNameTakesFirst ==
    (/\ ClientDone
     /\ client.name \in {None, <<>>}
     /\ ~ NoSuggestions(client.resp))
        => client.out =
              [kind |-> "return",
               val |-> Https(ItemGet(client.resp.data[1], "domain")),
               scanned |-> 1]

\* The name None and a first candidate the name a would not match.
EmptyNameTakesFirstWitness ==
    /\ ClientDone
    /\ client.name = None
    /\ client.resp = Http(200, "list", <<ItO, ItA>>)
    /\ client.out.val = Https(ItO.domain)
    /\ SyncClearbit(<<"a">>, client.resp).val = Https(ItA.domain)

\* The candidates among the first 3 whose name is missing or normalizes
\* to the empty string.
Nameless(data) ==
    {i \in 1..Len(data) :
        i <= 3 /\ CleanName(ItemGet(data[i], "name")) = <<>>}

\* C20: a candidate whose name is missing or normalizes to the empty
\* string satisfies rule 2 for every name; for a name that is a string or
\* None and a 200 answer whose first 3 candidates hold such a candidate,
\* the result is not None: the scan ends at that candidate at the latest,
\* and when it ends there the result is https://<domain> of that
\* candidate.
NamelessCandidateMatches ==
    (/\ ClientDone
     /\ client.name # NaN
     /\ ~ NoSuggestions(client.resp))
        => \A k \in Nameless(client.resp.data) :
              /\ Rule2(CleanName(client.name), client.resp.data[k])
              /\ client.out.val # None
              /\ client.out.scanned <= k
              /\ client.out.scanned = k
                    => client.out.val =
                          Https(ItemGet(client.resp.data[k], "domain"))

\* The name a, then a candidate named Oc on O.c and a candidate named Co.
\* on cc: the result is https://cc.
NamelessCandidateMatchesWitness ==
    /\ ClientDone
    /\ client.name = <<"a">>
    /\ client.resp = Http(200, "list", <<ItO, ItC>>)
    /\ ~ Rule1(CleanName(client.name), ItC)
    /\ client.out.scanned = 2
    /\ client.out.val = Https(ItC.domain)

----------------------------------------------------------------------------
(* Properties of _scrape_sync_email *)

ScraperDone == scraper.out # PendingScrape

\* C8: called with None or the empty string, the scraper returns None and
\* its trace is empty: no GET, no MX query, no other step.
NoUrlNoNetwork ==
    (ScraperDone /\ scraper.url \in {None, <<>>})
        => /\ scraper.out.kind = "return"
           /\ scraper.out.val = None
           /\ NetCalls(scraper.out.trace) = <<>>
           /\ scraper.out.trace = <<>>

\* The empty URL in a world whose network would have answered everything.
NoUrlNoNetworkWitness ==
    /\ ScraperDone
    /\ scraper.url = <<>>
    /\ scraper.w.home.ok /\ scraper.w.second.ok /\ scraper.w.mx = "records"
    /\ scraper.out.val = None

\* C9: when the homepage GET fails, the scraper returns None and the GET
\* is all it did: no extraction, no anchor scan, no second GET, no MX query.
HomeFailureIsTerminal ==
    (ScraperDone /\ ~ NoUrl(scraper.url) /\ ~ scraper.w.home.ok)
        => /\ scraper.out.kind = "return"
           /\ scraper.out.val = None
           /\ scraper.out.trace = <<Ev("get", scraper.url)>>

\* The homepage GET fails in a world where the rest would have answered.
HomeFailureIsTerminalWitness ==
    /\ ScraperDone
    /\ scraper.url = Https(AcmeIo)
    /\ ~ scraper.w.home.ok
    /\ scraper.w.second.ok /\ scraper.w.mx = "records"
    /\ Len(scraper.out.trace) = 1

MxQueries(trace) == SelectSeq(trace, LAMBDA e : e.op = "mx")

\* The list a page yields for the homepage's final URL, in the world's order.
Extracted(w, page) ==
    IF w.home.ok THEN ListOf(ExtractValidEmails(page, w.home.final), w.order)
    ELSE <<>>

\* C10: the scraper makes at most one MX query; an email it returns is
\* the one it queried, is the first of the list extracted from the
\* homepage, or from the secondary page when the homepage yields none, and
\* had MX records; when the query finds no records the result is None, as
\* it is when nothing was queried.
OnlyVerifiedEmail ==
    ScraperDone =>
        LET mxs == MxQueries(scraper.out.trace)
            h   == Extracted(scraper.w, scraper.w.home.page)
            s   == Extracted(scraper.w, scraper.w.second.page)
        IN /\ Len(mxs) <= 1
           /\ scraper.out.kind = "return"
           /\ scraper.out.val # None
                 => /\ Len(mxs) = 1
                    /\ mxs[1].arg = scraper.out.val
                    /\ scraper.w.mx = "records"
                    /\ IF h # <<>> THEN scraper.out.val = h[1]
                       ELSE /\ scraper.w.second.ok
                            /\ s # <<>>
                            /\ scraper.out.val = s[1]
           /\ (mxs = <<>> \/ scraper.w.mx # "records")
                 => scraper.out.val = None

\* Two candidates on the homepage, the one queried has no MX records, the
\* other is not tried and the result is None.
OnlyVerifiedEmailWitness ==
    /\ ScraperDone
    /\ scraper.w.home.ok
    /\ Cardinality(ExtractValidEmails(scraper.w.home.page, scraper.w.home.final)) = 2
    /\ scraper.w.mx = "nxdomain"
    /\ Len(MxQueries(scraper.out.trace)) = 1
    /\ scraper.out.val = None

----------------------------------------------------------------------------
(* Properties of the anchor loop *)

Gets(trace) == SelectSeq(trace, LAMBDA e : e.op = "get")

\* The anchors of the homepage, in document order.
HomeAnchors == scraper.w.home.page.anchors

ContactAt(k) ==
    \/ HasContact(Lower(HomeAnchors[k].text))
    \/ HasContact(Lower(HomeAnchors[k].href))

KeywordAt(k) ==
    \/ HasKeyword(Lower(HomeAnchors[k].text))
    \/ HasKeyword(Lower(HomeAnchors[k].href))

\* The page fetched after the homepage is anchor k, resolved against the
\* homepage's final URL.
FetchesAnchor(k) ==
    /\ Len(Gets(scraper.out.trace)) = 2
    /\ Gets(scraper.out.trace)[2].arg =
           UrlJoin(scraper.w.home.final, HomeAnchors[k].href)

\* C11: when some anchor's text or href contains contact, the link fetched
\* is the first such anchor in document order, resolved against the base
\* URL, whatever keyword anchors stand before or after it.
ContactLinkWins ==
    (ScraperDone /\ \E k \in 1..Len(HomeAnchors) : ContactAt(k))
        => \E k \in 1..Len(HomeAnchors) :
              /\ ContactAt(k)
              /\ \A j \in 1..(k - 1) : ~ ContactAt(j)
              /\ FetchesAnchor(k)

\* About, then the contact anchor, then Help: the contact anchor is fetched.
ContactLinkWinsWitness ==
    /\ ScraperDone
    /\ HomeAnchors = <<AAbout, AWrite, AHelp>>
    /\ FetchesAnchor(2)

\* C15: when no anchor contains contact, the link fetched is the last
\* anchor in document order that contains a keyword; when no anchor
\* contains a keyword nothing is fetched after the homepage and the result
\* is None.
LastKeywordLinkWins ==
    (ScraperDone /\ \A k \in 1..Len(HomeAnchors) : ~ ContactAt(k))
        => IF \E k \in 1..Len(HomeAnchors) : KeywordAt(k)
           THEN \E k \in 1..Len(HomeAnchors) :
                   /\ KeywordAt(k)
                   /\ \A j \in (k + 1)..Len(HomeAnchors) : ~ KeywordAt(j)
                   /\ FetchesAnchor(k)
           ELSE /\ Len(Gets(scraper.out.trace)) = 1
                /\ scraper.out.val = None

\* Help, then About, then an anchor without keyword: About is fetched.
LastKeywordLinkWinsWitness ==
    /\ ScraperDone
    /\ HomeAnchors = <<AHelp, AAbout, AHome>>
    /\ FetchesAnchor(2)

----------------------------------------------------------------------------
(* Properties of extract_valid_emails *)

\* The site's registrable domain name is contained in the registrable
\* domain name of the email's domain.
SameRegistrableName(email, site_url) ==
    IsSubstr(TldDomain(site_url), RegistrableName(EmailDomain(email)))

\* C12: every email the extractor returns, for the homepage or for the
\* secondary page, has a registrable domain name that contains the site's
\* registrable domain name.
EmailsOfTheSiteOnly ==
    (ScraperDone /\ scraper.w.home.ok)
        => /\ \A e \in ExtractValidEmails(scraper.w.home.page, scraper.w.home.final) :
                 SameRegistrableName(e, scraper.w.home.final)
           /\ \A e \in ExtractValidEmails(scraper.w.second.page, scraper.w.home.final) :
                 SameRegistrableName(e, scraper.w.home.final)
           /\ scraper.out.val # None
                 => SameRegistrableName(scraper.out.val, scraper.w.home.final)

----------------------------------------------------------------------------
(* Properties of the secondary fetch *)

LinkScans(trace) == SelectSeq(trace, LAMBDA e : e.op = "links")

\* The candidates the homepage yields for its final URL.
HomeCandidates ==
    ExtractValidEmails(scraper.w.home.page, scraper.w.home.final)

\* What the anchor loop selects on the homepage.
HomeLink == SelectLink(HomeAnchors, scraper.w.home.final, 1, None)

\* C13: a second page is fetched only when the homepage GET succeeded, the
\* homepage yielded no candidate and the anchor loop selected a link, and
\* the page fetched is that link; when the homepage yields a candidate the
\* anchor loop is not run and the homepage GET is the only one; when the
\* anchor loop selects nothing the result is None, with one GET and no MX
\* query.
SecondaryOnlyWhenNeeded ==
    (ScraperDone /\ ~ NoUrl(scraper.url))
        => LET t == scraper.out.trace
           IN /\ Len(Gets(t)) >= 2
                    => /\ scraper.w.home.ok
                       /\ HomeCandidates = {}
                       /\ HomeLink # None
                       /\ Gets(t)[2].arg = HomeLink
              /\ (scraper.w.home.ok /\ HomeCandidates # {})
                    => /\ LinkScans(t) = <<>>
                       /\ Len(Gets(t)) = 1
              /\ (scraper.w.home.ok /\ HomeCandidates = {} /\ HomeLink = None)
                    => /\ scraper.out.val = None
                       /\ Len(Gets(t)) = 1
                       /\ MxQueries(t) = <<>>

\* The homepage has a candidate and a Contact link, the secondary page
\* would have answered: the link is not followed.
SecondaryOnlyWhenNeededWitness ==
    /\ ScraperDone
    /\ scraper.w.home.ok
    /\ HomeCandidates # {}
    /\ HomeLink # None
    /\ scraper.w.second.ok
    /\ Len(Gets(scraper.out.trace)) = 1
    /\ LinkScans(scraper.out.trace) = <<>>
    /\ scraper.out.val # None

\* C14: when the GET of the secondary page fails, the result is None, the
\* failed GET is the last step and is not repeated, and no MX query is
\* made; no scrape makes more than two GETs.
SecondFailureIsTerminal ==
    (ScraperDone /\ ~ NoUrl(scraper.url))
        => LET t == scraper.out.trace
           IN /\ Len(Gets(t)) <= 2
              /\ (Len(Gets(t)) >= 2 /\ ~ scraper.w.second.ok)
                    => /\ scraper.out.val = None
                       /\ MxQueries(t) = <<>>
                       /\ Len(Gets(t)) = 2
                       /\ t[Len(t)] = Gets(t)[2]

\* The Contact link is followed, its GET fails, and the MX query that
\* would have found records is not made.
SecondFailureIsTerminalWitness ==
    /\ ScraperDone
    /\ scraper.w.home.ok
    /\ ~ scraper.w.second.ok
    /\ scraper.w.mx = "records"
    /\ Len(Gets(scraper.out.trace)) = 2
    /\ scraper.out.val = None

Extracts(trace) == SelectSeq(trace, LAMBDA e : e.op = "extract")

\* C17: when the secondary page was fetched, it is extracted against the
\* homepage's final URL, as the homepage was: the candidate queried and
\* the email returned have a domain that contains the registrable domain
\* name of that final URL, whatever the URL of the secondary page and the
\* URL requested are.
SecondaryAnchoredToFinalUrl ==
    (ScraperDone /\ Len(Gets(scraper.out.trace)) = 2 /\ scraper.w.second.ok)
        => LET t    == scraper.out.trace
               site == TldDomain(scraper.w.home.final)
           IN /\ Len(Extracts(t)) = 2
              /\ \A k \in 1..2 : Extracts(t)[k].arg = scraper.w.home.final
              /\ \A k \in 1..Len(MxQueries(t)) :
                    IsSubstr(site, EmailDomain(MxQueries(t)[k].arg))
              /\ scraper.out.val # None
                    => IsSubstr(site, EmailDomain(scraper.out.val))

\* The homepage of acme.io links to a page on other.com that lists an
\* email of other.com before two of acme.io: the email of other.com is not
\* the one returned.
SecondaryAnchoredToFinalUrlWitness ==
    /\ ScraperDone
    /\ scraper.w.home.final = Https(AcmeIo \o <<"/">>)
    /\ HomeAnchors = <<AExternal>>
    /\ Len(Gets(scraper.out.trace)) = 2
    /\ Gets(scraper.out.trace)[2].arg = AExternal.href
    /\ scraper.w.second.ok
    /\ scraper.w.second.page.mails # <<>>
    /\ scraper.w.second.page.mails[1] = MailOther
    /\ scraper.out.val # None
    /\ IsSubstr(TldDomain(scraper.w.home.final), EmailDomain(scraper.out.val))

====
